---- MODULE Spec2Model ----
(***************************************************************************)
(* A model of pydatastream.Datastream (src/pydatastream/pydatastream.py):  *)
(* the query builder construct_request, the record parser parse_record,    *)
(* the session's last_status, and the operations built on them (request,   *)
(* fetch, get_price, get_OHLC, get_OHLCV, get_constituents).               *)
(*                                                                         *)
(* Python values are modelled as follows.                                  *)
(*   - str / unicode: TLA+ strings (ASCII text only, so str() of a text    *)
(*     is that text).                                                      *)
(*   - None or a value: a sequence of length 0 or 1 (None, Some(x)).       *)
(*   - a field value of a raw record: [kind, items], kind "atom" for a     *)
(*     number, "text" for a text, "datetime" for a dt.datetime, "array"    *)
(*     for the service's Array objects whose [0] is the list of items.     *)
(*   - a pandas.DataFrame: [index, cols], index the row labels and cols a  *)
(*     function from column names to the sequence of the column's cells.   *)
(*   - a call's result: [kind, exc, msg, shape, table, meta, value], kind  *)
(*     "returned" or "raised", shape "table" for a single DataFrame and    *)
(*     "pair" for a (data, metadata) tuple, value what status() returns.   *)
(***************************************************************************)
EXTENDS Integers, Sequences, FiniteSets, TLC

VARIABLES
    raise_on_error,  \* self.raise_on_error
    last_status,     \* self.last_status: None or the status dictionary
    op,              \* name of the operation that ran last
    rec,             \* None or the raw record the last operation worked on
    inline,          \* inline_metadata of the last parse_record call
    qargs,           \* None or the arguments of the last construct_request call
    query,           \* the query string the last operation built
    outcome,         \* what the last operation returned or raised
    warned,          \* the warnings.warn texts the last operation emitted
    trace,           \* the steps the last operation went through, in order
    reply,           \* None or the record RequestRecord returned last
    source           \* what the remote service holds: the status and the fields
                     \* of the record it answers a request with

vars == <<raise_on_error, last_status, op, rec, inline, qargs, query,
          outcome, warned, trace, reply, source>>

-----------------------------------------------------------------------------
(* Bounds of the model *)

\* longest DATE / data array of a raw record
MaxLen == 2
\* largest number of INSTERROR-named fields of a raw record
MaxErr == 2
\* largest number of constituents of an index record
MaxRows == 2

-----------------------------------------------------------------------------
(* Python helpers *)

None == <<>>
Some(x) == <<x>>
IsNone(o) == o = <<>>
The(o) == o[1]

Range(s) == {s[i] : i \in 1..Len(s)}

\* F(v), with v evaluated once: a local variable assigned v and then used by F
With(v, F(_)) == CHOOSE r \in {F(x) : x \in {v}} : TRUE

\* sub in s, for two strings
Contains(s, sub) ==
    \E i \in 1..(Len(s) - Len(sub) + 1) : SubSeq(s, i, i + Len(sub) - 1) = sub

\* sep.join(items)
RECURSIVE Join(_, _)
Join(sep, items) ==
    IF Len(items) = 0 THEN ""
    ELSE IF Len(items) = 1 THEN items[1]
    ELSE items[1] \o sep \o Join(sep, Tail(items))

\* '%s' % items, for a list of str: the list's repr
RECURSIVE Quoted(_)
Quoted(items) ==
    IF Len(items) = 0 THEN <<>> ELSE <<"'" \o items[1] \o "'">> \o Quoted(Tail(items))

ListRepr(items) == "[" \o Join(", ", Quoted(items)) \o "]"

Atom(s) == [kind |-> "atom", items |-> <<s>>]
Text(s) == [kind |-> "text", items |-> <<s>>]
Datetime(s) == [kind |-> "datetime", items |-> <<s>>]
Array(ss) == [kind |-> "array", items |-> ss]

\* str(x) of a scalar field value
Str(v) == v.items[1]

EmptyTable == [index |-> <<>>, cols |-> <<>>]

Returned(shape, table, meta) ==
    [kind |-> "returned", exc |-> "", msg |-> "", shape |-> shape,
     table |-> table, meta |-> meta, value |-> None]

Raised(exc, msg) ==
    [kind |-> "raised", exc |-> exc, msg |-> msg, shape |-> "",
     table |-> EmptyTable, meta |-> <<>>, value |-> None]

NoOutcome == Returned("", EmptyTable, <<>>)

-----------------------------------------------------------------------------
(* class Datastream *)

\* status taking the request from the wrong key of the record
status_WrongRequest(record) ==
    [Source |-> record.Source,
     StatusType |-> record.StatusType,
     StatusCode |-> record.StatusCode,
     StatusMessage |-> [list |-> FALSE, text |-> <<record.StatusMessage>>],
     Request |-> record.Source]

\* status(record) with a record: the dictionary stored in self.last_status
status(record) ==
    [Source |-> record.Source,
     StatusType |-> record.StatusType,
     StatusCode |-> record.StatusCode,
     StatusMessage |-> [list |-> FALSE, text |-> <<record.StatusMessage>>],
     Request |-> record.Instrument]

\* _test_status_and_warn: the warnings it emits for a status
test_status_and_warn(st) ==
    IF st.StatusType # "Connected"
    THEN IF ~st.StatusMessage.list
         THEN <<"[DWE] " \o st.StatusMessage.text[1]>>
         ELSE <<"[DWE] " \o Join(";", st.StatusMessage.text)>>
    ELSE <<>>

\* the list [x[1] for x in record['Fields'][0] if x[0] == name]
Matches(record, name) ==
    SelectSeq(record.Fields, LAMBDA x : x[1] = name)

HasField(record, name) == Len(Matches(record, name)) > 0

\* get_field(name), where it exists
get_field(record, name) == Matches(record, name)[1][2]

\* '%s (error %i): %s --> "%s"' % (StatusType, StatusCode, StatusMessage, Request)
StatusErrorText(st) ==
    st.StatusType \o " (error " \o ToString(st.StatusCode) \o "): "
        \o st.StatusMessage.text[1] \o " --> \"" \o st.Request \o "\""

\* 'Error: %s --> "%s"' % (error, Request)
InstErrorText(error, st) ==
    "Error: " \o ListRepr(error) \o " --> \"" \o st.Request \o "\""

\* ErrorsOf stopping at the first INSTERROR field
RECURSIVE ErrorsOf_First(_)
ErrorsOf_First(fs) ==
    IF Len(fs) = 0 THEN <<>>
    ELSE IF Contains(fs[1][1], "INSTERROR") THEN <<Str(fs[1][2])>>
    ELSE ErrorsOf_First(Tail(fs))

\* error = [str(x[1]) for x in record['Fields'][0] if 'INSTERROR' in x[0]]
RECURSIVE ErrorsOf(_)
ErrorsOf(fs) ==
    IF Len(fs) = 0 THEN <<>>
    ELSE (IF Contains(fs[1][1], "INSTERROR") THEN <<Str(fs[1][2])>> ELSE <<>>)
         \o ErrorsOf(Tail(fs))

meta_fields == {"CCY", "DISPNAME", "FREQUENCY", "SYMBOL", "DATE"}

\* fields = [str(x[0]) for x in record['Fields'][0]
\*           if (x[0] not in meta_fields and 'INSTERROR' not in x[0])]
RECURSIVE DataFields(_)
DataFields(fs) ==
    IF Len(fs) = 0 THEN <<>>
    ELSE (IF fs[1][1] \notin meta_fields /\ ~Contains(fs[1][1], "INSTERROR")
          THEN <<fs[1][1]>> ELSE <<>>)
         \o DataFields(Tail(fs))

MetadataKeys == {"Frequency", "Currency", "DisplayName", "Symbol"}

\* data[x] = metadata[x] for x in metadata
Inlined(data, metadata) ==
    [data EXCEPT !.cols =
        [c \in (DOMAIN data.cols) \cup MetadataKeys |->
            IF c \in MetadataKeys
            THEN [i \in 1..Len(data.index) |-> Text(metadata[c])]
            ELSE data.cols[c]]]

\* Finish returning the pair whatever inline_metadata is
Finish_AlwaysPair(data, metadata, inline_metadata) ==
    Returned("pair", data, <<metadata>>)

\* lines 214-220 of parse_record: metadata inlined or returned beside the table
Finish(data, metadata, inline_metadata) ==
    IF inline_metadata
    THEN Returned("table", Inlined(data, metadata), <<>>)
    ELSE Returned("pair", data, <<metadata>>)

Failed(exc, msg) == [ok |-> FALSE, exc |-> exc, msg |-> msg, data |-> EmptyTable]
Built(data) == [ok |-> TRUE, exc |-> "", msg |-> "", data |-> data]

\* DataFrameOf taking the single-observation branch for every DATE
DataFrameOf_OneRow(record) ==
    IF ~HasField(record, "DATE")
    THEN Failed("IndexError", "list index out of range")
    ELSE Built([index |-> <<Join(",", get_field(record, "DATE").items)>>,
                cols |-> [x \in Range(DataFields(record.Fields)) |->
                            <<get_field(record, x)>>]])

\* get_field(x)[0] for a text: its first character, which pandas repeats in
\* every row; for an array: its list of items
Column(v, n) ==
    IF v.kind = "text" THEN [i \in 1..n |-> Text(SubSeq(v.items[1], 1, 1))]
    ELSE [i \in 1..n |-> Atom(v.items[i])]

\* lines 201-212 of parse_record: the DataFrame of the data fields, one row for a
\* DATE that is a datetime and one row per date otherwise; get_field raises
\* IndexError without a DATE, [0] raises TypeError on a number or a datetime,
\* and pandas raises ValueError for a list that is not as long as the index
DataFrameOf(record) ==
    LET fields == Range(DataFields(record.Fields))
    IN  IF ~HasField(record, "DATE")
        THEN Failed("IndexError", "list index out of range")
        ELSE IF get_field(record, "DATE").kind = "datetime"
        THEN Built([index |-> <<get_field(record, "DATE").items[1]>>,
                    cols |-> [x \in fields |-> <<get_field(record, x)>>]])
        ELSE IF \E x \in fields : get_field(record, x).kind \in {"atom", "datetime"}
        THEN Failed("TypeError", "object is not subscriptable")
        ELSE IF \E x \in fields :
                   /\ get_field(record, x).kind = "array"
                   /\ Len(get_field(record, x).items) # Len(get_field(record, "DATE").items)
        THEN Failed("ValueError", "length of values does not match length of index")
        ELSE Built([index |-> get_field(record, "DATE").items,
                    cols |-> [x \in fields |->
                                Column(get_field(record, x),
                                       Len(get_field(record, "DATE").items))]])

\* lines 201-220 of parse_record
BuildTable(record, metadata, inline_metadata, st, ws) ==
    LET ret(t) ==
            [outcome |-> IF t.ok THEN Finish(t.data, metadata, inline_metadata)
                         ELSE Raised(t.exc, t.msg),
             last_status |-> st, warned |-> ws]
    IN  With(DataFrameOf(record), ret)

Placeholders ==
    [Frequency |-> "", Currency |-> "", DisplayName |-> "", Symbol |-> ""]

\* NotConnected without the test of raise_on_error: it warns and returns
NotConnected_NeverRaises(st, roe) ==
    [outcome |-> Returned("pair", EmptyTable, <<>>),
     last_status |-> st, warned |-> test_status_and_warn(st)]

\* NotConnected without the test of raise_on_error: it raises
NotConnected_AlwaysRaises(st, roe) ==
    [outcome |-> Raised("DatastreamException", StatusErrorText(st)),
     last_status |-> st, warned |-> <<>>]

\* lines 174-181 of parse_record: the record's StatusType is not 'Connected'
NotConnected(st, roe) ==
    IF roe
    THEN [outcome |-> Raised("DatastreamException", StatusErrorText(st)),
          last_status |-> st, warned |-> <<>>]
    ELSE [outcome |-> Returned("pair", EmptyTable, <<>>),
          last_status |-> st, warned |-> test_status_and_warn(st)]

\* lines 189-190 of parse_record: the status of an instrument error
InstErrorStatus(st, error) ==
    [st EXCEPT !.StatusMessage = [list |-> TRUE, text |-> error],
               !.StatusType = "INSTERROR"]

\* parse_record(record, inline_metadata) under self.raise_on_error = roe:
\* what it returns or raises, self.last_status afterwards, the warnings emitted
parse_record(record, inline_metadata, roe) ==
    LET st == status(record)
        error == ErrorsOf(record.Fields)
    IN  IF st.StatusType # "Connected"
        THEN NotConnected(st, roe)
        ELSE IF Len(error) > 0
        THEN IF roe
             THEN [outcome |-> Raised("DatastreamException", InstErrorText(error, st)),
                   last_status |-> st, warned |-> <<>>]
             ELSE BuildTable(record, Placeholders, inline_metadata,
                             InstErrorStatus(st, error),
                             test_status_and_warn(InstErrorStatus(st, error)))
        ELSE IF \E f \in {"FREQUENCY", "CCY", "DISPNAME", "SYMBOL"} : ~HasField(record, f)
        THEN [outcome |-> Raised("IndexError", "list index out of range"),
              last_status |-> st, warned |-> <<>>]
        ELSE BuildTable(record,
                        [Frequency |-> Str(get_field(record, "FREQUENCY")),
                         Currency |-> Str(get_field(record, "CCY")),
                         DisplayName |-> Str(get_field(record, "DISPNAME")),
                         Symbol |-> Str(get_field(record, "SYMBOL"))],
                        inline_metadata, st, <<>>)

-----------------------------------------------------------------------------
(* Raw records *)

\* StatusType with the StatusCode and StatusMessage the service pairs with it
Statuses ==
    {[StatusType |-> "Connected", StatusCode |-> 0, StatusMessage |-> "No Error"],
     [StatusType |-> "Stale", StatusCode |-> 2, StatusMessage |-> "Source Fault"],
     [StatusType |-> "Failure", StatusCode |-> 5, StatusMessage |-> "No Such Item"],
     [StatusType |-> "Pending", StatusCode |-> 12, StatusMessage |-> "Internal"]}

DateList == <<"2020-01-01", "2020-01-02", "2020-01-03", "2020-01-06">>
PriceList == <<"101.5", "102.0", "99.5", "100.0">>

MetaPart ==
    <<<<"CCY", Text("USD")>>, <<"DISPNAME", Text("X CORP")>>,
      <<"FREQUENCY", Text("D")>>, <<"SYMBOL", Text("X")>>>>

MetaParts == {<<>>, MetaPart}

DateParts ==
    {<<>>, << <<"DATE", Datetime(DateList[1])>> >>}
    \cup {<< <<"DATE", Array(SubSeq(DateList, 1, n))>> >> : n \in 0..MaxLen}

DataParts ==
    {<<>>, << <<"P", Atom(PriceList[1])>> >>, << <<"P", Text("NA")>> >>}
    \cup {<< <<"P", Array(SubSeq(PriceList, 1, n))>> >> : n \in 0..MaxLen}

ErrName(i) == IF i = 1 THEN "INSTERROR" ELSE "INSTERROR_" \o ToString(i)

ErrPart(k) == [i \in 1..k |-> <<ErrName(i), Text("INVALID CODE " \o ToString(i))>>]

ErrParts == {ErrPart(k) : k \in 0..MaxErr}

FieldLists ==
    {m \o d \o p \o e : m \in MetaParts, d \in DateParts, p \in DataParts, e \in ErrParts}

RecordOf(s, instrument, fs) ==
    [Source |-> "Datastream", StatusType |-> s.StatusType, StatusCode |-> s.StatusCode,
     StatusMessage |-> s.StatusMessage, Instrument |-> instrument, Fields |-> fs]

Records == {RecordOf(s, "X~D", fs) : s \in Statuses, fs \in FieldLists}

-------------------------------------------------------------------------------------------------------------------------------------------------
(* construct_request *)

DateObj(y, m, d) == [kind |-> "datetime", text |-> "", y |-> y, m |-> m, d |-> d]
DateStr(t) == [kind |-> "str", text |-> t, y |-> 0, m |-> 0, d |-> 0]

DigitVal(c) == CHOOSE n \in 0..9 : ToString(n) = c

\* int(s) of a string of decimal digits
RECURSIVE ParseInt(_)
ParseInt(s) ==
    IF Len(s) = 0 THEN 0
    ELSE 10 * ParseInt(SubSeq(s, 1, Len(s) - 1)) + DigitVal(SubSeq(s, Len(s), Len(s)))

\* s.split(sep), sep one character
RECURSIVE Split(_, _)
Split(s, sep) ==
    IF \A i \in 1..Len(s) : SubSeq(s, i, i) # sep THEN <<s>>
    ELSE LET i == CHOOSE k \in 1..Len(s) :
                     /\ SubSeq(s, k, k) = sep
                     /\ \A j \in 1..(k - 1) : SubSeq(s, j, j) # sep
         IN  <<SubSeq(s, 1, i - 1)>> \o Split(SubSeq(s, i + 1, Len(s)), sep)

\* pd.to_datetime(date): a datetime as it is, a 'Y-M-D' text parsed
to_datetime(date) ==
    IF date.kind = "datetime" THEN [y |-> date.y, m |-> date.m, d |-> date.d]
    ELSE LET parts == Split(date.text, "-")
         IN  [y |-> ParseInt(parts[1]), m |-> ParseInt(parts[2]), d |-> ParseInt(parts[3])]

\* '%02d' % n
Pad2(n) == IF n < 10 THEN "0" \o ToString(n) ELSE ToString(n)

\* '%04d' % n
Pad4(n) ==
    IF n < 10 THEN "000" \o ToString(n)
    ELSE IF n < 100 THEN "00" \o ToString(n)
    ELSE IF n < 1000 THEN "0" \o ToString(n)
    ELSE ToString(n)

\* ts.strftime('%Y-%m-%d')
strftime_Ymd(ts) == Pad4(ts.y) \o "-" \o Pad2(ts.m) \o "-" \o Pad2(ts.d)

\* ts.strftime('%m%y')
strftime_my(ts) == Pad2(ts.m) \o Pad2(ts.y % 100)

TickerStr(t) == [list |-> FALSE, items |-> <<t>>]
TickerList(ts) == [list |-> TRUE, items |-> ts]
FieldsNone == [kind |-> "none", items |-> <<>>]
FieldsStr(f) == [kind |-> "str", items |-> <<f>>]
FieldsList(fs) == [kind |-> "list", items |-> fs]

Args(ticker, fields, date, date_from, date_to, freq) ==
    [ticker |-> ticker, fields |-> fields, date |-> date,
     date_from |-> date_from, date_to |-> date_to, freq |-> freq]

\* construct_request with "if date_from" in place of "else: if date_from": the
\* range is appended after a single date too
construct_request_DateAndRange(a) ==
    LET r1 == IF a.ticker.list THEN Join(",", a.ticker.items) ELSE a.ticker.items[1]
        r2 == IF a.fields.kind = "str" THEN r1 \o "~=" \o a.fields.items[1]
              ELSE IF a.fields.kind = "list" /\ Len(a.fields.items) > 0
              THEN r1 \o "~=" \o Join(",", a.fields.items)
              ELSE r1
        r3 == IF ~IsNone(a.date)
              THEN r2 \o "~@" \o strftime_Ymd(to_datetime(The(a.date)))
              ELSE r2
        r4 == IF ~IsNone(a.date_from)
              THEN r3 \o "~" \o strftime_Ymd(to_datetime(The(a.date_from)))
              ELSE r3
        r5 == IF ~IsNone(a.date_to)
              THEN r4 \o "~:" \o strftime_Ymd(to_datetime(The(a.date_to)))
              ELSE r4
    IN  IF ~IsNone(a.freq) THEN r5 \o "~" \o The(a.freq) ELSE r5

\* construct_request(ticker, fields, date, date_from, date_to, freq)
construct_request(a) ==
    LET r1 == IF a.ticker.list THEN Join(",", a.ticker.items) ELSE a.ticker.items[1]
        r2 == IF a.fields.kind = "str" THEN r1 \o "~=" \o a.fields.items[1]
              ELSE IF a.fields.kind = "list" /\ Len(a.fields.items) > 0
              THEN r1 \o "~=" \o Join(",", a.fields.items)
              ELSE r1
        r3 == IF ~IsNone(a.date)
              THEN r2 \o "~@" \o strftime_Ymd(to_datetime(The(a.date)))
              ELSE LET r3a == IF ~IsNone(a.date_from)
                              THEN r2 \o "~" \o strftime_Ymd(to_datetime(The(a.date_from)))
                              ELSE r2
                   IN  IF ~IsNone(a.date_to)
                       THEN r3a \o "~:" \o strftime_Ymd(to_datetime(The(a.date_to)))
                       ELSE r3a
    IN  IF ~IsNone(a.freq) THEN r3 \o "~" \o The(a.freq) ELSE r3

-----------------------------------------------------------------------------
(* request, fetch, get_OHLCV, get_OHLC, get_price, get_constituents *)

\* request(query): the record client.service.RequestRecord answers with; the
\* service echoes the query in the record's Instrument
request(q, src) == RecordOf(src.status, q, src.fields)

\* what an operation does to the session:
\* status None when it leaves self.last_status alone, raw None when it sent nothing
Effect(o, st, ws, tr, raw, q) ==
    [outcome |-> o, status |-> st, warned |-> ws, trace |-> tr, raw |-> raw, query |-> q]

\* lines 308-313 of fetch: (data, meta) = p, then the return
FetchReturn(p, only_data, raw, q) ==
    LET tr == <<"construct_request", "request", "parse_record">>
    IN  IF p.outcome.kind = "raised"
        THEN Effect(p.outcome, Some(p.last_status), p.warned, tr, Some(raw), q)
        ELSE Effect(IF only_data
                    THEN Returned("table", p.outcome.table, <<>>)
                    ELSE Returned("pair", p.outcome.table, p.outcome.meta),
                    Some(p.last_status), p.warned, tr \o <<"return">>, Some(raw), q)

\* fetch(ticker, fields, date, date_from, date_to, freq, only_data)
fetch(a, only_data, roe, src) ==
    IF a.ticker.list
    THEN Effect(Raised("DatastreamException",
                       "Requested ticker should be in a string format. "
                       \o "In order to fetch multiple tickers at once "
                       \o "use \"fetch_many\" method."),
                None, <<>>, <<>>, None, "")
    ELSE LET parse(raw) ==
                 LET ret(p) == FetchReturn(p, only_data, raw, raw.Instrument)
                 IN  With(parse_record(raw, FALSE, roe), ret)
         IN  With(request(construct_request(a), src), parse)

\* WarnAndReturn without the call of _test_status_and_warn
WarnAndReturn_NoCheck(f) ==
    IF f.outcome.kind = "raised" THEN f
    ELSE [f EXCEPT !.outcome = Returned("table", f.outcome.table, <<>>)]

\* lines 342-343, 357-358, 372-373: self._test_status_and_warn(), return data
WarnAndReturn(f) ==
    IF f.outcome.kind = "raised" THEN f
    ELSE [f EXCEPT !.outcome = Returned("table", f.outcome.table, <<>>),
                   !.warned = f.warned \o test_status_and_warn(The(f.status)),
                   !.trace = SubSeq(f.trace, 1, Len(f.trace) - 1)
                             \o <<"_test_status_and_warn", "return">>]

\* lines 340-343, 355-358, 370-373: fetch(..., 'D', only_data=False), then
\* self._test_status_and_warn(), then return data
FetchAndWarn(ticker, date, date_from, date_to, roe, src) ==
    With(fetch(Args(TickerStr(ticker), FieldsNone, date, date_from, date_to, Some("D")),
               FALSE, roe, src),
         WarnAndReturn)

get_OHLCV(ticker, date, date_from, date_to, roe, src) ==
    FetchAndWarn(ticker \o "~OHLCV", date, date_from, date_to, roe, src)

get_OHLC(ticker, date, date_from, date_to, roe, src) ==
    FetchAndWarn(ticker \o "~OHLC", date, date_from, date_to, roe, src)

get_price(ticker, date, date_from, date_to, roe, src) ==
    FetchAndWarn(ticker, date, date_from, date_to, roe, src)

\* record = {x[0]:x[1] for x in raw['Fields'][0]}: its keys
Keys(raw) == {raw.Fields[i][1] : i \in 1..Len(raw.Fields)}

\* record[key]: the last field of that name wins
Lookup(raw, key) ==
    LET m == Matches(raw, key) IN m[Len(m)][2]

\* fld_name numbering the second row 1: field+'_%i'%indx
fld_name_ZeroBased(field, indx) ==
    IF indx = 0 THEN field ELSE field \o "_" \o ToString(indx)

\* fld_name = lambda field, indx: field if indx==0 else field+'_%i'%(indx+1)
fld_name(field, indx) == IF indx = 0 THEN field ELSE field \o "_" \o ToString(indx + 1)

\* pd.DataFrame(dict of lists): the default index 0, 1, ... of the columns' length
RowLabels(n) == [i \in 1..n |-> ToString(i - 1)]

\* get_constituents(index_ticker, date)
get_constituents(index_ticker, date, roe, src) ==
    LET str_date == IF ~IsNone(date) THEN strftime_my(to_datetime(The(date))) ELSE ""
        q == "L" \o index_ticker \o str_date \o "~XREF"
        raw == request(q, src)
        st == status(raw)
        tr == <<"request", "status">>
        eff(o, ws) == Effect(o, Some(st), ws, tr, Some(raw), q)
        allfields == {x \in Keys(raw) : ~Contains(x, "_")}
        fields == allfields \ {"DATE"}
        num == Cardinality({x \in Keys(raw) : Contains(x, "SYMBOL")})
    IN  IF st.StatusType # "Connected"
        THEN IF roe
             THEN eff(Raised("DatastreamException", StatusErrorText(st)), <<>>)
             ELSE eff(Returned("table", EmptyTable, <<>>), test_status_and_warn(st))
        ELSE IF "DATE" \notin allfields
        THEN eff(Raised("ValueError", "list.remove(x): x not in list"), <<>>)
        ELSE IF \E fld \in fields, ind \in 0..(num - 1) : fld_name(fld, ind) \notin Keys(raw)
        THEN eff(Raised("KeyError", "field"), <<>>)
        ELSE eff(Returned("table",
                          [index |-> IF fields = {} THEN <<>> ELSE RowLabels(num),
                           cols |-> [fld \in fields |->
                                       [k \in 1..num |-> Lookup(raw, fld_name(fld, k - 1))]]],
                          <<>>),
                 <<>>)

-----------------------------------------------------------------------------
(* What the remote service holds *)

SourceOf(s, fs) == [status |-> s, fields |-> fs]

ValidSingle ==
    MetaPart \o << <<"DATE", Datetime(DateList[1])>>, <<"P", Atom(PriceList[1])>> >>

ValidSeries ==
    MetaPart \o << <<"DATE", Array(SubSeq(DateList, 1, MaxLen))>>,
                   <<"P", Array(SubSeq(PriceList, 1, MaxLen))>> >>

\* the fields name, name_2, ... of the rows in S, in row order
ConstituentPart(name, S) ==
    LET idx == SelectSeq([i \in 1..MaxRows |-> i], LAMBDA i : i \in S)
    IN  [i \in 1..Len(idx) |->
            <<fld_name(name, idx[i] - 1), Text(name \o ToString(idx[i]))>>]

\* index records: DATE or not, SYMBOL and CCY for any rows
ConstituentLists ==
    {d \o ConstituentPart("SYMBOL", S) \o ConstituentPart("CCY", C) :
        d \in {<<>>, << <<"DATE", Datetime(DateList[1])>> >>},
        S \in SUBSET (1..MaxRows), C \in SUBSET (1..MaxRows)}

ConstituentSources == {SourceOf(s, fs) : s \in Statuses, fs \in ConstituentLists}

\* the index record of section 8: SYMBOL, SYMBOL_2, CCY, CCY_2 and a DATE
XrefList ==
    << <<"DATE", Datetime(DateList[1])>> >>
    \o ConstituentPart("SYMBOL", {1, 2}) \o ConstituentPart("CCY", {1, 2})

SessionLists == {ValidSingle, ErrPart(1), ValidSeries \o ErrPart(1), XrefList}

\* the fields matter for a Connected record only
SessionSources ==
    {SourceOf(s, fs) : s \in {x \in Statuses : x.StatusType = "Connected"},
                       fs \in SessionLists}
    \cup {SourceOf(s, ValidSingle) : s \in Statuses}

Dates == {DateObj(2020, 1, 1), DateObj(2019, 12, 31), DateStr("2020-2-1")}

QueryArgs ==
    {Args(t, f, d, df, dt, fr) :
        t \in {TickerStr("X"), TickerList(<<"A", "B">>)},
        f \in {FieldsNone, FieldsStr("P"), FieldsList(<<>>), FieldsList(<<"P", "VO">>)},
        d \in {None} \cup {Some(x) : x \in Dates},
        df \in {None, Some(DateObj(2020, 1, 1))},
        dt \in {None, Some(DateStr("2020-02-01"))},
        fr \in {None, Some("D"), Some("W")}}

\* what the session's callers ask for
SessionArgs ==
    {Args(t, FieldsNone, None, None, None, Some("D")) :
        t \in {TickerStr("X"), TickerList(<<"A", "B">>)}}

-----------------------------------------------------------------------------
(* The session as a state machine *)

InitSession ==
    /\ raise_on_error = TRUE
    /\ last_status = None
    /\ op = "__init__"
    /\ rec = None
    /\ inline = FALSE
    /\ query = ""
    /\ outcome = NoOutcome
    /\ warned = <<>>
    /\ trace = <<>>

Init ==
    /\ InitSession
    /\ qargs = None
    /\ reply = None
    /\ source \in SessionSources

\* the remote service's data changes
SourceChanges ==
    /\ source' \in SessionSources \ {source}
    /\ UNCHANGED <<raise_on_error, last_status, op, rec, inline, qargs, query,
                   outcome, warned, trace, reply>>

\* the caller sets self.raise_on_error
SetRaiseOnError ==
    /\ raise_on_error' \in BOOLEAN \ {raise_on_error}
    /\ op' = "raise_on_error"
    /\ rec' = None
    /\ inline' = FALSE
    /\ qargs' = None
    /\ query' = ""
    /\ outcome' = NoOutcome
    /\ warned' = <<>>
    /\ trace' = <<>>
    /\ UNCHANGED <<last_status, reply, source>>

\* an operation that sends a request ran: its effect on the session
Apply(name, a, e) ==
    /\ op' = name
    /\ rec' = e.raw
    /\ inline' = FALSE
    /\ qargs' = a
    /\ query' = e.query
    /\ outcome' = e.outcome
    /\ warned' = e.warned
    /\ trace' = e.trace
    /\ last_status' = IF IsNone(e.status) THEN last_status ELSE e.status
    /\ reply' = IF IsNone(e.raw) THEN reply ELSE e.raw
    /\ UNCHANGED <<raise_on_error, source>>

\* raw = request(query)
Request ==
    \E q \in {"X"} :
        \E raw \in {request(q, source)} :
            Apply("request", None,
                  Effect(Returned("record", EmptyTable, <<>>), None, <<>>, <<"request">>,
                         Some(raw), q))

\* status(): the status of the previous operation
Status ==
    /\ op' = "status"
    /\ rec' = None
    /\ inline' = FALSE
    /\ qargs' = None
    /\ query' = ""
    /\ outcome' = [Returned("status", EmptyTable, <<>>) EXCEPT !.value = last_status]
    /\ warned' = <<>>
    /\ trace' = <<>>
    /\ UNCHANGED <<raise_on_error, last_status, reply, source>>

\* parse_record(raw, inline_metadata), raw the record request returned last
ParseReply ==
    /\ ~IsNone(reply)
    /\ \E inline_metadata \in BOOLEAN :
        \E r \in {parse_record(The(reply), inline_metadata, raise_on_error)} :
        /\ op' = "parse_record"
        /\ rec' = reply
        /\ inline' = inline_metadata
        /\ qargs' = None
        /\ query' = ""
        /\ outcome' = r.outcome
        /\ last_status' = Some(r.last_status)
        /\ warned' = r.warned
        /\ trace' = <<"status", "parse">>
        /\ UNCHANGED <<raise_on_error, reply, source>>

Fetch ==
    \E a \in SessionArgs, only_data \in BOOLEAN :
        \E e \in {fetch(a, only_data, raise_on_error, source)} :
            Apply("fetch", Some(a), e)

GetOHLCV ==
    \E a \in {x \in SessionArgs : ~x.ticker.list} :
        \E e \in {get_OHLCV(a.ticker.items[1], a.date, a.date_from, a.date_to,
                        raise_on_error, source)} :
            Apply("get_OHLCV", Some(a), e)

GetOHLC ==
    \E a \in {x \in SessionArgs : ~x.ticker.list} :
        \E e \in {get_OHLC(a.ticker.items[1], a.date, a.date_from, a.date_to,
                        raise_on_error, source)} :
            Apply("get_OHLC", Some(a), e)

GetPrice ==
    \E a \in {x \in SessionArgs : ~x.ticker.list} :
        \E e \in {get_price(a.ticker.items[1], a.date, a.date_from, a.date_to,
                        raise_on_error, source)} :
            Apply("get_price", Some(a), e)

GetConstituents ==
    \E date \in {None, Some(DateObj(2020, 1, 1))} :
        \E e \in {get_constituents("FTSE100", date, raise_on_error, source)} :
            Apply("get_constituents",
                  Some(Args(TickerStr("FTSE100"), FieldsNone, date, None, None, None)), e)

Next ==
    \/ SourceChanges
    \/ SetRaiseOnError
    \/ Request
    \/ Status
    \/ ParseReply
    \/ Fetch
    \/ GetOHLCV
    \/ GetOHLC
    \/ GetPrice
    \/ GetConstituents

Spec == Init /\ [][Next]_vars

\* parse_record over every raw record: the record is one a request returned
InitParse ==
    /\ InitSession
    /\ source \in {SourceOf(s, ValidSingle) : s \in {x \in Statuses : x.StatusType = "Connected"}}
    /\ qargs = None
    /\ reply \in {Some(r) : r \in Records}

NextParse == SetRaiseOnError \/ ParseReply

SpecParse == InitParse /\ [][NextParse]_vars

\* construct_request over every combination of its arguments
InitQuery ==
    /\ InitSession
    /\ source \in {SourceOf(s, ValidSingle) : s \in {x \in Statuses : x.StatusType = "Connected"}}
    /\ reply = None
    /\ qargs \in {Some(a) : a \in QueryArgs}

ConstructRequest ==
    /\ ~IsNone(qargs)
    /\ op' = "construct_request"
    /\ query' = construct_request(The(qargs))
    /\ outcome' = Returned("str", EmptyTable, <<>>)
    /\ trace' = <<"construct_request">>
    /\ UNCHANGED <<raise_on_error, last_status, rec, inline, qargs, warned, reply, source>>

NextQuery == ConstructRequest

SpecQuery == InitQuery /\ [][NextQuery]_vars

\* get_constituents over every index record
InitConstituents ==
    /\ InitSession
    /\ qargs = None
    /\ reply = None
    /\ source \in ConstituentSources

NextConstituents == SetRaiseOnError \/ GetConstituents

SpecConstituents == InitConstituents /\ [][NextConstituents]_vars

-----------------------------------------------------------------------------
(* Properties of parse_record, under SpecParse *)

Parsed == op = "parse_record"

FieldNames(record) == {record.Fields[i][1] : i \in 1..Len(record.Fields)}

ErrorNames(record) == {n \in FieldNames(record) : Contains(n, "INSTERROR")}

\* the values of the INSTERROR-named fields, in the record's order
ErrorValues(record) ==
    LET es == SelectSeq(record.Fields, LAMBDA x : Contains(x[1], "INSTERROR"))
    IN  [i \in 1..Len(es) |-> es[i][2].items[1]]

\* the names of the data fields: not metadata, not DATE, not INSTERROR-named
DataNames(record) ==
    (FieldNames(record) \ {"CCY", "DISPNAME", "FREQUENCY", "SYMBOL", "DATE"})
        \ ErrorNames(record)

Field(record, name) ==
    record.Fields[CHOOSE i \in 1..Len(record.Fields) : record.Fields[i][1] = name][2]

HasMetadata(record) == {"CCY", "DISPNAME", "FREQUENCY", "SYMBOL"} \subseteq FieldNames(record)

\* C1: parse_record on a record that is not 'Connected', with raise_on_error set,
\* raises a DatastreamException whose text carries the record's StatusType,
\* StatusCode, StatusMessage and request, with or without INSTERROR fields in
\* the record; no table is returned
C1_ServiceErrorRaises ==
    (Parsed /\ raise_on_error /\ The(rec).StatusType # "Connected") =>
        /\ outcome.kind = "raised"
        /\ outcome.exc = "DatastreamException"
        /\ outcome.shape = ""
        /\ Contains(outcome.msg, The(rec).StatusType)
        /\ Contains(outcome.msg, "error " \o ToString(The(rec).StatusCode))
        /\ Contains(outcome.msg, The(rec).StatusMessage)
        /\ Contains(outcome.msg, "\"" \o The(rec).Instrument \o "\"")

C1_Witness ==
    /\ Parsed /\ raise_on_error
    /\ The(rec).StatusType = "Failure"
    /\ ErrorNames(The(rec)) # {}
    /\ outcome.kind = "raised"

\* C2: parse_record on a record that is not 'Connected', with raise_on_error
\* clear, does not raise: it returns an empty table with empty metadata whatever
\* the record's fields are, and last_status.StatusType is the record's StatusType
\* afterwards, not the 'INSTERROR' sentinel
C2_ServiceErrorReturnsEmpty ==
    (Parsed /\ ~raise_on_error /\ The(rec).StatusType # "Connected") =>
        /\ outcome.kind = "returned"
        /\ outcome.table = EmptyTable
        /\ outcome.meta = <<>>
        /\ The(last_status).StatusType = The(rec).StatusType

C2_Witness ==
    /\ Parsed /\ ~raise_on_error
    /\ The(rec).StatusType = "Stale"
    /\ ErrorNames(The(rec)) # {}
    /\ "DATE" \in FieldNames(The(rec))
    /\ outcome.kind = "returned"
    /\ The(last_status).StatusType = "Stale"

\* C3: with raise_on_error clear, parse_record on a record that is not
\* 'Connected' or that has an INSTERROR-named field warns and returns, whatever
\* other fields the record has; it never ends with an exception
C3_NoFailureWhenNotRaising ==
    (Parsed /\ ~raise_on_error
        /\ (The(rec).StatusType # "Connected" \/ ErrorNames(The(rec)) # {})) =>
        /\ outcome.kind = "returned"
        /\ Len(warned) > 0

\* the four metadata columns of an inlined table, one value in every row
MetadataInlined(t) ==
    \A k \in MetadataKeys :
        /\ Len(t.cols[k]) = Len(t.index)
        /\ \A i, j \in 1..Len(t.index) : t.cols[k][i] = t.cols[k][j]

ValidSingle_(record) ==
    /\ record.StatusType = "Connected"
    /\ ErrorNames(record) = {}
    /\ HasMetadata(record)
    /\ "DATE" \in FieldNames(record)
    /\ Field(record, "DATE").kind = "datetime"

SeriesWellFormed(record) ==
    \A x \in DataNames(record) :
        /\ Field(record, x).kind = "array"
        /\ Len(Field(record, x).items) = Len(Field(record, "DATE").items)

\* C8: on a 'Connected' record with no INSTERROR field, the table parse_record
\* returns has one row, indexed by the date, when DATE is a single datetime, and
\* N rows, indexed by the dates, when DATE is a sequence of N dates, every data
\* column then being of length N and holding the data field's sequence where
\* the field is one; it returns one whenever the record has its metadata
\* fields, a DATE and, for a sequence, data fields as long as DATE
C8_ShapeDetection ==
    (Parsed /\ The(rec).StatusType = "Connected" /\ ErrorNames(The(rec)) = {}) =>
        LET record == The(rec)
            t == outcome.table
        IN  /\ outcome.kind = "returned" =>
                /\ "DATE" \in FieldNames(record)
                /\ DataNames(record) \subseteq DOMAIN t.cols
                /\ Field(record, "DATE").kind = "datetime" =>
                    /\ Len(t.index) = 1
                    /\ t.index = Field(record, "DATE").items
                    /\ \A x \in DataNames(record) : t.cols[x] = <<Field(record, x)>>
                /\ Field(record, "DATE").kind = "array" =>
                    /\ Len(t.index) = Len(Field(record, "DATE").items)
                    /\ t.index = Field(record, "DATE").items
                    /\ \A x \in DataNames(record) :
                        /\ Len(t.cols[x]) = Len(t.index)
                        /\ Field(record, x).kind = "array" =>
                            \A i \in 1..Len(t.index) :
                                t.cols[x][i] = Atom(Field(record, x).items[i])
            /\ ( /\ HasMetadata(record)
                 /\ "DATE" \in FieldNames(record)
                 /\ Field(record, "DATE").kind = "array" => SeriesWellFormed(record) )
               => outcome.kind = "returned"

C8_Witness ==
    /\ Parsed /\ The(rec).StatusType = "Connected" /\ ErrorNames(The(rec)) = {}
    /\ outcome.kind = "returned"
    /\ "DATE" \in FieldNames(The(rec))
    /\ Field(The(rec), "DATE").kind = "array"
    /\ Len(outcome.table.index) = MaxLen
    /\ "P" \in DOMAIN outcome.table.cols
    /\ Field(The(rec), "P").kind = "array"
    /\ Len(outcome.table.cols["P"]) = MaxLen

\* C10: on a 'Connected' record with INSTERROR-named fields, parse_record with
\* raise_on_error set raises an error carrying the error values and the request;
\* with raise_on_error clear it sets last_status.StatusType to 'INSTERROR' and
\* last_status.StatusMessage to the list of all the INSTERROR values, leaving
\* Source, StatusCode and Request as in the record, uses '' for Frequency,
\* Currency, DisplayName and Symbol, and keeps every INSTERROR-named field out
\* of the table's columns
C10_InstrumentError ==
    (Parsed /\ The(rec).StatusType = "Connected" /\ ErrorNames(The(rec)) # {}) =>
        LET record == The(rec)
            errors == ErrorValues(record)
        IN  /\ raise_on_error =>
                /\ outcome.kind = "raised"
                /\ outcome.exc = "DatastreamException"
                /\ \A i \in 1..Len(errors) : Contains(outcome.msg, "'" \o errors[i] \o "'")
                /\ Contains(outcome.msg, "\"" \o record.Instrument \o "\"")
            /\ ~raise_on_error =>
                /\ The(last_status).StatusType = "INSTERROR"
                /\ The(last_status).StatusMessage.list
                /\ The(last_status).StatusMessage.text = errors
                /\ The(last_status).Source = record.Source
                /\ The(last_status).StatusCode = record.StatusCode
                /\ The(last_status).Request = record.Instrument
                /\ outcome.kind = "returned" =>
                    /\ DOMAIN outcome.table.cols \cap ErrorNames(record) = {}
                    /\ inline => \A k \in MetadataKeys :
                                    \A i \in 1..Len(outcome.table.index) :
                                        outcome.table.cols[k][i] = Text("")
                    /\ ~inline => outcome.meta = <<Placeholders>>

C10_Witness ==
    /\ Parsed /\ ~raise_on_error
    /\ The(rec).StatusType = "Connected"
    /\ Cardinality(ErrorNames(The(rec))) = MaxErr
    /\ outcome.kind = "returned"
    /\ DataNames(The(rec)) # {}
    /\ Len(The(last_status).StatusMessage.text) = MaxErr

-----------------------------------------------------------------------------
(* Properties of construct_request, under SpecQuery *)

\* the YYYY-MM-DD text of each date the arguments are drawn from
DateText(x) ==
    CASE x = DateObj(2020, 1, 1) -> "2020-01-01"
      [] x = DateObj(2019, 12, 31) -> "2019-12-31"
      [] x = DateStr("2020-2-1") -> "2020-02-01"
      [] x = DateStr("2020-02-01") -> "2020-02-01"

\* C4: construct_request is the ticker prefix (a list joined with ','), then
\* '~=' and the fields, then the date segment, then '~' and freq; with date the
\* date segment is '~@YYYY-MM-DD' alone, without date it is '~YYYY-MM-DD' for
\* date_from followed by '~:YYYY-MM-DD' for date_to, each present or not on its
\* own; ('X', ['P','VO'], date_from=2020-01-01, date_to=2020-02-01, freq='D')
\* gives 'X~=P,VO~2020-01-01~:2020-02-01~D'
C4_SegmentsInOrder ==
    (op = "construct_request") =>
        LET a == The(qargs)
            prefix == IF a.ticker.list THEN Join(",", a.ticker.items)
                      ELSE a.ticker.items[1]
            fieldsSeg == IF a.fields.items = <<>> THEN ""
                         ELSE "~=" \o Join(",", a.fields.items)
            fromSeg == IF IsNone(a.date_from) THEN ""
                       ELSE "~" \o DateText(The(a.date_from))
            toSeg == IF IsNone(a.date_to) THEN "" ELSE "~:" \o DateText(The(a.date_to))
            dateSeg == IF ~IsNone(a.date) THEN "~@" \o DateText(The(a.date))
                       ELSE fromSeg \o toSeg
            freqSeg == IF IsNone(a.freq) THEN "" ELSE "~" \o The(a.freq)
        IN  /\ query = prefix \o fieldsSeg \o dateSeg \o freqSeg
            /\ a = Args(TickerStr("X"), FieldsList(<<"P", "VO">>), None,
                        Some(DateObj(2020, 1, 1)), Some(DateStr("2020-02-01")), Some("D"))
               => query = "X~=P,VO~2020-01-01~:2020-02-01~D"
            /\ a = Args(TickerList(<<"A", "B">>), FieldsNone, Some(DateObj(2020, 1, 1)),
                        None, None, None)
               => query = "A,B~@2020-01-01"

C4_Witness ==
    /\ op = "construct_request"
    /\ ~IsNone(The(qargs).date) /\ ~IsNone(The(qargs).date_from)
    /\ ~IsNone(The(qargs).date_to) /\ ~IsNone(The(qargs).freq)
    /\ The(qargs).fields = FieldsList(<<"P", "VO">>)
    /\ query = "X~=P,VO~@2020-02-01~W"

-----------------------------------------------------------------------------
(* Properties of get_constituents, under SpecConstituents *)

Underscored(n) == Contains(n, "_")

\* the columns: the field names without an underscore, DATE aside
ColumnNames(record) == {n \in FieldNames(record) : ~Underscored(n)} \ {"DATE"}

\* the number of field names that contain 'SYMBOL'
SymbolCount(record) == Cardinality({n \in FieldNames(record) : Contains(n, "SYMBOL")})

\* the field that holds row k of column F
RowField(F, k) == IF k = 1 THEN F ELSE F \o "_" \o ToString(k)

ConstituentsTable(record, t) ==
    /\ Len(t.index) = SymbolCount(record)
    /\ DOMAIN t.cols = ColumnNames(record)
    /\ \A F \in ColumnNames(record) :
        /\ Len(t.cols[F]) = SymbolCount(record)
        /\ \A k \in 1..SymbolCount(record) :
            /\ RowField(F, k) \in FieldNames(record)
            /\ t.cols[F][k] = Field(record, RowField(F, k))

\* C7 as stated: get_constituents on any 'Connected' record returns the table
\* with one row per field name containing 'SYMBOL' and one column per field name
\* without an underscore other than DATE, row k of column F being field F for
\* k = 1 and F_k for k >= 2
C7_AnyConnectedRecord ==
    (op = "get_constituents" /\ The(rec).StatusType = "Connected") =>
        /\ outcome.kind = "returned"
        /\ ConstituentsTable(The(rec), outcome.table)

\* the record has DATE, every field F_k the rows need and, if any field name
\* contains 'SYMBOL', a field without an underscore other than DATE
IndexWellFormed(record) ==
    /\ "DATE" \in FieldNames(record)
    /\ \A F \in ColumnNames(record), k \in 1..SymbolCount(record) :
        RowField(F, k) \in FieldNames(record)
    /\ SymbolCount(record) > 0 => ColumnNames(record) # {}

\* C7, amended: get_constituents on a 'Connected' record that has a DATE field,
\* the field F_k for every column F and every k in 2..n (n the number of field
\* names containing 'SYMBOL') and, when n > 0, at least one column, returns that
\* table; without DATE it raises ValueError, and without some F_k KeyError
C7_WellFormedRecord ==
    (op = "get_constituents" /\ The(rec).StatusType = "Connected") =>
        /\ IndexWellFormed(The(rec)) =>
            /\ outcome.kind = "returned"
            /\ outcome.shape = "table"
            /\ ConstituentsTable(The(rec), outcome.table)
        /\ "DATE" \notin FieldNames(The(rec)) =>
            outcome.kind = "raised" /\ outcome.exc = "ValueError"
        /\ ( /\ "DATE" \in FieldNames(The(rec))
             /\ \E F \in ColumnNames(The(rec)), k \in 1..SymbolCount(The(rec)) :
                    RowField(F, k) \notin FieldNames(The(rec)) )
           => outcome.kind = "raised" /\ outcome.exc = "KeyError"

C7_Witness ==
    /\ op = "get_constituents" /\ The(rec).StatusType = "Connected"
    /\ FieldNames(The(rec)) = {"DATE", "SYMBOL", "SYMBOL_2", "CCY", "CCY_2"}
    /\ outcome.kind = "returned"
    /\ Len(outcome.table.index) = 2
    /\ DOMAIN outcome.table.cols = {"SYMBOL", "CCY"}
    /\ outcome.table.cols["CCY"][2] = Field(The(rec), "CCY_2")

-----------------------------------------------------------------------------
(* Properties of the session, under Spec *)

Submitting == {"request", "fetch", "get_price", "get_OHLC", "get_OHLCV", "get_constituents"}

\* the last operation sent a request to the service
Submitted == "request" \in Range(trace)

\* Source, StatusType, StatusCode, StatusMessage, Request of a record
StatusFields(record) ==
    [Source |-> record.Source, StatusType |-> record.StatusType,
     StatusCode |-> record.StatusCode,
     StatusMessage |-> [list |-> FALSE, text |-> <<record.StatusMessage>>],
     Request |-> record.Instrument]

StatusAfterParse(record, roe) ==
    IF record.StatusType = "Connected" /\ ErrorNames(record) # {} /\ ~roe
    THEN [StatusFields(record) EXCEPT
            !.StatusType = "INSTERROR",
            !.StatusMessage = [list |-> TRUE, text |-> ErrorValues(record)]]
    ELSE StatusFields(record)

Getters == {"get_price", "get_OHLC", "get_OHLCV"}

\* C9 as stated: get_price, get_OHLC, get_OHLCV and fetch each construct the
\* query, send it, parse the record, test last_status and warn, and return; a
\* status that is not 'Connected' is then warned about twice
C9_AllFourWarnAfterParse ==
    (op \in Getters \cup {"fetch"} /\ outcome.kind = "returned") =>
        /\ trace = <<"construct_request", "request", "parse_record",
                     "_test_status_and_warn", "return">>
        /\ The(last_status).StatusType # "Connected" => Len(warned) = 2

\* C9, amended: get_price, get_OHLC and get_OHLCV each construct the query, send
\* it, parse the record, test last_status and warn, and return, so that a status
\* that is not 'Connected' is warned about twice with the same text; fetch
\* constructs, sends, parses and returns with no test of last_status of its
\* own, so that such a status is warned about once, by the parser
C9_OnlyGettersWarnAfterParse ==
    /\ (op \in Getters /\ outcome.kind = "returned") =>
        /\ trace = <<"construct_request", "request", "parse_record",
                     "_test_status_and_warn", "return">>
        /\ The(last_status).StatusType # "Connected" =>
            /\ Len(warned) = 2
            /\ warned[1] = warned[2]
        /\ The(last_status).StatusType = "Connected" => warned = <<>>
    /\ (op = "fetch" /\ outcome.kind = "returned") =>
        /\ trace = <<"construct_request", "request", "parse_record", "return">>
        /\ The(last_status).StatusType # "Connected" => Len(warned) = 1
        /\ The(last_status).StatusType = "Connected" => warned = <<>>

C9_Witness ==
    /\ op = "get_OHLC" /\ outcome.kind = "returned"
    /\ ~raise_on_error
    /\ The(last_status).StatusType = "Stale"
    /\ query = "X~OHLC~D"
    /\ warned = <<"[DWE] Source Fault", "[DWE] Source Fault">>

====
